---- MODULE Spec2Model ----
(***************************************************************************)
(* Model of the session view of the gym tracker (src/src/views/Session.tsx *)
(* with the session store of src/src/db.ts): the per-set timer state       *)
(* machine, its persisted timer record, the set registry, the wake lock    *)
(* and the asynchronous continuations of the handlers that await the       *)
(* session store.                                                          *)
(*                                                                         *)
(* One action is one task of the browser's event loop: a click handler, an *)
(* interval callback, a promise continuation; each includes the render and *)
(* the effects React runs after it (the saveTimerState effect, the vibrate *)
(* effect).  The state updates of one task are rendered together (React's  *)
(* automatic batching).  Times are wall-clock milliseconds.  The form      *)
(* fields (weight, reps, rpe, technicalFailure) never influence control    *)
(* flow and are left out of the measurement records.                       *)
(***************************************************************************)
EXTENDS Integers, Sequences, FiniteSets, TLC

VARIABLES
    now,                \* Date.now()
    visible,            \* document.visibilityState = 'visible'
    store,              \* IndexedDB object store 'sessions': id -> Session
    nextId,             \* generateId(): the next fresh session id
    lsRec,              \* localStorage[TIMER_STORAGE_KEY]
    view,               \* "home" | "session" | "summary" | "crashed"
    templateId,         \* route parameter of the mounted session view
    sessId,             \* session.id of the component's session state (0: null)
    sessEx,             \* session.exercises of the component's session state
    sessionStartTime,   \* session.startTime of the component's session state
    summaryData,        \* the summaryData state: the finished session the modal shows
    cei,                \* currentExerciseIndex
    csi,                \* currentSetIndex
    timerState,
    tutStartTime,
    restStartTime,
    countdownEndTime,
    elapsedTut,
    elapsedRest,
    countdown,
    lastTutTime,
    setRegistered,
    lastCountdownSecond, \* lastCountdownSecondRef.current
    hasVibrated,        \* hasVibratedRef.current
    wakeLockRef,        \* wakeLockRef.current: "null" | "active" | "released"
    wakeReq,            \* wake-lock requests of the mounted view not yet settled
    wakeStale,          \* wake-lock requests of unmounted views not yet settled
    orphanHeld,         \* an active sentinel that no mounted view's ref points to
    wakeSupported,      \* 'wakeLock' in navigator
    env,                \* the platform: vibration supported, tone playback throwing
    pending,            \* handlers suspended at an await on the session store, FIFO
    saved,              \* history: cursor and snapshot at the last write of lsRec
    resumedFrom,        \* history: the stored phase that the step just taken resumed from
    windowAppends,      \* history: measurements appended since the last endExecution
    tones,              \* history: the tones played since the last startPreparation
    buzzes              \* history: the vibrations of the current phase instance

recVars     == <<lsRec, saved>>
persistVars == <<store, nextId, recVars>>
cursorVars  == <<cei, csi>>
timerVars   == <<timerState, tutStartTime, restStartTime, countdownEndTime,
                 lastTutTime, setRegistered>>
tickVars    == <<elapsedTut, elapsedRest, countdown, lastCountdownSecond, hasVibrated>>
wakeVars    == <<wakeLockRef, wakeReq, wakeStale, orphanHeld, wakeSupported, env>>
sessVars    == <<view, templateId, sessId, sessEx, sessionStartTime, summaryData>>
signalVars  == <<tones, buzzes>>
vars == <<now, visible, persistVars, sessVars, cursorVars, timerVars, tickVars,
          wakeVars, pending, resumedFrom, windowAppends, signalVars>>

----------------------------------------------------------------------------
(* Program constants *)

COUNTDOWN_SECONDS == 5
TickMs == 100            \* the period of the timer's setInterval
DefaultRestSeconds == 90
Null == -1              \* null / undefined of a number | null state

(* Bounds of the model *)

T0 == 1000              \* the clock when the application is first opened
StepMs == 5000          \* the clock advances in steps of StepMs
MaxNow == 21000         \* the clock stops here
DriveMaxNow == 36000    \* the same for the uninterrupted session of three exercises
ShortMaxNow == 11000    \* the same for the specifications with more actions
CountdownMaxNow == 6500 \* the same for the countdown under regular ticks
TickJitter == 30        \* a tick comes at most this much late
MaxSessions == 2        \* session ids that generateId can hand out
MaxPending == 2         \* suspended store handlers
MaxWakeReq == 1         \* unsettled wake-lock requests
MaxFailedSaves == 1     \* failed session saves in one rest window
FineMs == 250           \* the clock also advances by FineMs and by FineMs - 1
SummaryMaxNow == 7250   \* the clock stops here under the fine steps
CoarseMs == 700         \* a clock step that is no whole number of seconds
InterruptedMaxNow == 16000  \* the clock stops here in the reloaded session
ElapsedMaxNow == 11500  \* the clock stops here under the coarse steps

NoRec == [sessionId |-> 0]
NoSaved == [sessionId |-> 0]
InvalidJson == [sessionId |-> -1]   \* a stored text that JSON.parse rejects
JsonNull == [sessionId |-> -2]      \* the stored text "null"
NoTones == [start |-> Null, beeps |-> <<>>, finals |-> 0]
NoSummary == [completed |-> FALSE]
GoodEnv == [vibrate |-> TRUE, toneThrows |-> FALSE]

(* The templates of the library: per exercise the target set count and the *)
(* target rest.                                                            *)
Plan(t) ==
    CASE t = "A" -> <<[sets |-> 2, restSeconds |-> 5], [sets |-> 1, restSeconds |-> 0]>>
      [] t = "B" -> <<[sets |-> 1, restSeconds |-> 5]>>
      [] t = "C" -> <<[sets |-> 3, restSeconds |-> 5], [sets |-> 2, restSeconds |-> 5],
                      [sets |-> 1, restSeconds |-> 5]>>
      [] t = "D" -> <<[sets |-> 3, restSeconds |-> 5]>>

----------------------------------------------------------------------------
(* Pure helpers *)

\* Math.ceil(x / 1000) for an integer x of either sign
CeilSeconds(x) == 0 - ((0 - x) \div 1000)

Max(a, b) == IF a >= b THEN a ELSE b

\* Math.round as it would be if a tie were rounded down
MathRoundHalfDown(n, d) ==
    LET q == n \div d
        r == n % d
    IN IF 2 * r > d THEN q + 1 ELSE q

\* Math.round(n / d) for d > 0: the nearest integer, a tie rounded up
MathRound(n, d) ==
    LET q == n \div d
        r == n % d
    IN IF 2 * r >= d THEN q + 1 ELSE q

Truthy(t) == t # Null /\ t # 0

\* template.exercises[i]?.restSeconds || 90, in milliseconds
TargetRestMs(t, i) ==
    LET rs == IF i + 1 \in DOMAIN Plan(t) THEN Plan(t)[i + 1].restSeconds ELSE 0
    IN (IF rs # 0 THEN rs ELSE DefaultRestSeconds) * 1000

\* isLastSetOfExercise as it would be with the comparison off by one
IsLastSetOfExerciseOffByOne(t, i, s) == s >= Plan(t)[i + 1].sets

IsLastSetOfExercise(t, i, s) == s + 1 >= Plan(t)[i + 1].sets
IsLastExercise(t, i) == i + 1 >= Len(Plan(t))
IsVeryLastSet(t, i, s) == IsLastSetOfExercise(t, i, s) /\ IsLastExercise(t, i)

Mounted == view \in {"session", "summary"}

\* db.getActiveSession: the first session of getAll (key order) not completed
ActiveIds(st) == {i \in DOMAIN st : ~st[i].completed}
GetActiveSession(st) ==
    IF ActiveIds(st) = {} THEN 0
    ELSE CHOOSE i \in ActiveIds(st) : \A j \in ActiveIds(st) : i <= j

\* db.saveSession / db.deleteSession
SaveSession(st, id, rec) == [i \in DOMAIN st \cup {id} |-> IF i = id THEN rec ELSE st[i]]
DeleteSession(st, id) == [i \in DOMAIN st \ {id} |-> st[i]]

----------------------------------------------------------------------------
(* Resume *)

\* restoreSessionState: the first slot whose measurement count is below target
IncompleteSlots(ex, t) == {i \in 0..(Len(Plan(t)) - 1) : Len(ex[i + 1]) < Plan(t)[i + 1].sets}
\* The scan as it would be if the last incomplete slot won
LastIncomplete(ex, t) ==
    CHOOSE i \in IncompleteSlots(ex, t) : \A j \in IncompleteSlots(ex, t) : i >= j

FirstIncomplete(ex, t) ==
    CHOOSE i \in IncompleteSlots(ex, t) : \A j \in IncompleteSlots(ex, t) : i <= j

RestoreSessionState(ex, t) ==
    IF IncompleteSlots(ex, t) # {}
    THEN LET i == FirstIncomplete(ex, t)
             n == Len(ex[i + 1])
         IN [cei |-> i, csi |-> n,
             lastTutTime |-> IF n > 0 THEN ex[i + 1][n].tutMs ELSE 0]
    ELSE [cei |-> Len(Plan(t)) - 1, csi |-> Plan(t)[Len(Plan(t))].sets, lastTutTime |-> 0]

\* The timer state of a freshly mounted view (the useState initial values),
\* lastTutTime being what restoreSessionState left.
FreshTimer(lt) ==
    [timerState |-> "IDLE", tutStartTime |-> Null, restStartTime |-> Null,
     countdownEndTime |-> Null, lastTutTime |-> lt, setRegistered |-> FALSE,
     error |-> FALSE]

\* JSON.parse(stored) throws, or state.sessionId throws on the parsed null
ParseThrows(rec) == rec \in {InvalidJson, JsonNull}

\* restoreTimerState as it would be if an expired countdown were anchored at
\* the time of the resume instead of at the stored deadline
RestoreTimerStateAnchoredAtResume(rec, id, t, lt) ==
    IF rec.sessionId = 0 THEN FreshTimer(lt)
    ELSE IF rec.sessionId # id THEN FreshTimer(lt)
    ELSE IF rec.state = "PREPARATION" /\ Truthy(rec.countdownEndTime)
    THEN IF rec.countdownEndTime > t
         THEN [FreshTimer(lt) EXCEPT !.countdownEndTime = rec.countdownEndTime,
                                     !.timerState = "PREPARATION"]
         ELSE [FreshTimer(lt) EXCEPT !.tutStartTime = t,
                                     !.timerState = "EXECUTION"]
    ELSE IF rec.state = "EXECUTION" /\ Truthy(rec.tutStartTime)
    THEN [FreshTimer(lt) EXCEPT !.tutStartTime = rec.tutStartTime,
                                !.timerState = "EXECUTION"]
    ELSE IF rec.state \in {"REST", "TRANSITION"} /\ Truthy(rec.restStartTime)
    THEN [FreshTimer(lt) EXCEPT !.restStartTime = rec.restStartTime,
                                !.lastTutTime = rec.lastTutMs,
                                !.setRegistered = rec.setRegistered,
                                !.timerState = rec.state]
    ELSE FreshTimer(lt)

\* restoreTimerState as it would be if the rest branch did not restore
\* setRegistered
RestoreTimerStateWithoutRegistered(rec, id, t, lt) ==
    IF rec.sessionId = 0 THEN FreshTimer(lt)
    ELSE IF rec.sessionId # id THEN FreshTimer(lt)
    ELSE IF rec.state = "PREPARATION" /\ Truthy(rec.countdownEndTime)
    THEN IF rec.countdownEndTime > t
         THEN [FreshTimer(lt) EXCEPT !.countdownEndTime = rec.countdownEndTime,
                                     !.timerState = "PREPARATION"]
         ELSE [FreshTimer(lt) EXCEPT !.tutStartTime = rec.countdownEndTime,
                                     !.timerState = "EXECUTION"]
    ELSE IF rec.state = "EXECUTION" /\ Truthy(rec.tutStartTime)
    THEN [FreshTimer(lt) EXCEPT !.tutStartTime = rec.tutStartTime,
                                !.timerState = "EXECUTION"]
    ELSE IF rec.state \in {"REST", "TRANSITION"} /\ Truthy(rec.restStartTime)
    THEN [FreshTimer(lt) EXCEPT !.restStartTime = rec.restStartTime,
                                !.lastTutTime = rec.lastTutMs,
                                !.timerState = rec.state]
    ELSE FreshTimer(lt)

\* restoreTimerState as it would be without the comparison of the stored
\* sessionId
RestoreTimerStateAnySession(rec, id, t, lt) ==
    IF rec.sessionId = 0 THEN FreshTimer(lt)
    ELSE IF rec.state = "PREPARATION" /\ Truthy(rec.countdownEndTime)
    THEN IF rec.countdownEndTime > t
         THEN [FreshTimer(lt) EXCEPT !.countdownEndTime = rec.countdownEndTime,
                                     !.timerState = "PREPARATION"]
         ELSE [FreshTimer(lt) EXCEPT !.tutStartTime = rec.countdownEndTime,
                                     !.timerState = "EXECUTION"]
    ELSE IF rec.state = "EXECUTION" /\ Truthy(rec.tutStartTime)
    THEN [FreshTimer(lt) EXCEPT !.tutStartTime = rec.tutStartTime,
                                !.timerState = "EXECUTION"]
    ELSE IF rec.state \in {"REST", "TRANSITION"} /\ Truthy(rec.restStartTime)
    THEN [FreshTimer(lt) EXCEPT !.restStartTime = rec.restStartTime,
                                !.lastTutTime = rec.lastTutMs,
                                !.setRegistered = rec.setRegistered,
                                !.timerState = rec.state]
    ELSE FreshTimer(lt)

\* restoreTimerState as it would be if the rest branch did not require the
\* stored restStartTime
RestoreTimerStateWithoutAnchorTest(rec, id, t, lt) ==
    IF rec.sessionId = 0 THEN FreshTimer(lt)
    ELSE IF ParseThrows(rec) THEN FreshTimer(lt)
    ELSE IF rec.sessionId # id THEN FreshTimer(lt)
    ELSE IF rec.state = "PREPARATION" /\ Truthy(rec.countdownEndTime)
    THEN IF rec.countdownEndTime > t
         THEN [FreshTimer(lt) EXCEPT !.countdownEndTime = rec.countdownEndTime,
                                     !.timerState = "PREPARATION"]
         ELSE [FreshTimer(lt) EXCEPT !.tutStartTime = rec.countdownEndTime,
                                     !.timerState = "EXECUTION"]
    ELSE IF rec.state = "EXECUTION" /\ Truthy(rec.tutStartTime)
    THEN [FreshTimer(lt) EXCEPT !.tutStartTime = rec.tutStartTime,
                                !.timerState = "EXECUTION"]
    ELSE IF rec.state \in {"REST", "TRANSITION"}
    THEN [FreshTimer(lt) EXCEPT !.restStartTime = rec.restStartTime,
                                !.lastTutTime = rec.lastTutMs,
                                !.setRegistered = rec.setRegistered,
                                !.timerState = rec.state]
    ELSE FreshTimer(lt)

\* restoreTimerState(sessionId) at time t, applied to the fresh timer state
RestoreTimerState(rec, id, t, lt) ==
    IF rec.sessionId = 0 THEN FreshTimer(lt)
    ELSE IF ParseThrows(rec) THEN FreshTimer(lt)      \* caught: nothing was set
    ELSE IF rec.sessionId # id THEN FreshTimer(lt)
    ELSE IF rec.state = "PREPARATION" /\ Truthy(rec.countdownEndTime)
    THEN IF rec.countdownEndTime > t
         THEN [FreshTimer(lt) EXCEPT !.countdownEndTime = rec.countdownEndTime,
                                     !.timerState = "PREPARATION"]
         ELSE [FreshTimer(lt) EXCEPT !.tutStartTime = rec.countdownEndTime,
                                     !.timerState = "EXECUTION"]
    ELSE IF rec.state = "EXECUTION" /\ Truthy(rec.tutStartTime)
    THEN [FreshTimer(lt) EXCEPT !.tutStartTime = rec.tutStartTime,
                                !.timerState = "EXECUTION"]
    ELSE IF rec.state \in {"REST", "TRANSITION"} /\ Truthy(rec.restStartTime)
    THEN [FreshTimer(lt) EXCEPT !.restStartTime = rec.restStartTime,
                                !.lastTutTime = rec.lastTutMs,
                                !.setRegistered = rec.setRegistered,
                                !.timerState = rec.state]
    ELSE FreshTimer(lt)

----------------------------------------------------------------------------
(* Effects run after a render *)

\* saveTimerState effect: runs when the callback's dependencies changed
\* saveTimerState as it would be if its effect depended on the session alone
SaveTimerStateOnSessionChange(sessionChanged) ==
    LET write == sessId' # 0 /\ sessionChanged
    IN /\ lsRec' = IF write
                   THEN [sessionId |-> sessId', state |-> timerState',
                         tutStartTime |-> tutStartTime',
                         restStartTime |-> restStartTime',
                         countdownEndTime |-> countdownEndTime',
                         lastTutMs |-> lastTutTime',
                         setRegistered |-> setRegistered']
                   ELSE lsRec
       /\ saved' = IF write
                   THEN [sessionId |-> sessId', cei |-> cei', csi |-> csi',
                         phase |-> timerState', timer |-> timerVars']
                   ELSE saved

\* saveTimerState as it would be if its effect ran after every render
\* instead of after a change of its dependencies
SaveTimerStateEveryRender(sessionChanged) ==
    /\ lsRec' = IF sessId' # 0
                THEN [sessionId |-> sessId', state |-> timerState',
                      tutStartTime |-> tutStartTime',
                      restStartTime |-> restStartTime',
                      countdownEndTime |-> countdownEndTime',
                      lastTutMs |-> lastTutTime',
                      setRegistered |-> setRegistered']
                ELSE lsRec
    /\ saved' = IF sessId' # 0
                THEN [sessionId |-> sessId', cei |-> cei', csi |-> csi',
                      phase |-> timerState', timer |-> timerVars']
                ELSE saved

\* (sessionChanged: setSession was given a new object)
SaveTimerState(sessionChanged) ==
    LET write == sessId' # 0 /\ (sessionChanged \/ timerVars' # timerVars)
    IN /\ lsRec' = IF write
                   THEN [sessionId |-> sessId', state |-> timerState',
                         tutStartTime |-> tutStartTime',
                         restStartTime |-> restStartTime',
                         countdownEndTime |-> countdownEndTime',
                         lastTutMs |-> lastTutTime',
                         setRegistered |-> setRegistered']
                   ELSE lsRec
       /\ saved' = IF write
                   THEN [sessionId |-> sessId', cei |-> cei', csi |-> csi',
                         phase |-> timerState', timer |-> timerVars']
                   ELSE saved

\* vibrate effect, hv being hasVibratedRef.current as the handler left it
VibrateEffect(hv) ==
    LET vibrate == /\ timerState' \in {"REST", "TRANSITION"}
                   /\ <<elapsedRest', timerState', cei'>> # <<elapsedRest, timerState, cei>>
                   /\ elapsedRest' >= TargetRestMs(templateId', cei')
                   /\ ~hv
    IN /\ hasVibrated' = IF vibrate THEN TRUE ELSE hv
       /\ buzzes' = (IF timerState' # timerState THEN 0 ELSE buzzes)
                     + (IF vibrate /\ env.vibrate THEN 1 ELSE 0)

\* releaseWakeLock
ReleaseWakeLock == wakeLockRef' = "null"

\* The state of no mounted session view
Unmounted ==
    /\ templateId' = "-"
    /\ sessId' = 0
    /\ sessEx' = <<>>
    /\ sessionStartTime' = Null
    /\ summaryData' = NoSummary
    /\ cei' = 0 /\ csi' = 0
    /\ timerState' = "IDLE"
    /\ tutStartTime' = Null /\ restStartTime' = Null /\ countdownEndTime' = Null
    /\ lastTutTime' = 0 /\ setRegistered' = FALSE
    /\ elapsedTut' = 0 /\ elapsedRest' = 0 /\ countdown' = COUNTDOWN_SECONDS
    /\ lastCountdownSecond' = COUNTDOWN_SECONDS
    /\ hasVibrated' = FALSE
    /\ wakeLockRef' = "null"
    /\ tones' = NoTones
    /\ buzzes' = 0

InitBase(supported, e) ==
    /\ wakeSupported = supported
    /\ env = e
    /\ now = T0
    /\ visible = TRUE
    /\ store = <<>>
    /\ nextId = 1
    /\ lsRec = NoRec
    /\ saved = NoSaved
    /\ resumedFrom = "-"
    /\ windowAppends = 0
    /\ view = "home"
    /\ templateId = "-"
    /\ sessId = 0
    /\ sessEx = <<>>
    /\ sessionStartTime = Null
    /\ summaryData = NoSummary
    /\ cei = 0 /\ csi = 0
    /\ timerState = "IDLE"
    /\ tutStartTime = Null /\ restStartTime = Null /\ countdownEndTime = Null
    /\ lastTutTime = 0 /\ setRegistered = FALSE
    /\ elapsedTut = 0 /\ elapsedRest = 0 /\ countdown = COUNTDOWN_SECONDS
    /\ lastCountdownSecond = COUNTDOWN_SECONDS
    /\ hasVibrated = FALSE
    /\ wakeLockRef = "null"
    /\ wakeReq = 0 /\ wakeStale = 0 /\ orphanHeld = FALSE
    /\ pending = <<>>
    /\ tones = NoTones
    /\ buzzes = 0

\* A platform where vibration is supported and tones play
InitWith(supported) == InitBase(supported, GoodEnv)

\* A platform without the Wake Lock API
Init == InitWith(FALSE)

----------------------------------------------------------------------------
(* Mounting the session view: the init of the first effect *)

\* requestWakeLock up to its await
RequestWakeLock ==
    /\ wakeSupported => wakeReq + wakeStale < MaxWakeReq
    /\ wakeReq' = IF wakeSupported THEN wakeReq + 1 ELSE wakeReq

\* history: the tag of a resume that found the record of another session
StaleTag(phase) ==
    CASE phase = "IDLE" -> "STALE_IDLE"
      [] phase = "PREPARATION" -> "STALE_PREPARATION"
      [] phase = "EXECUTION" -> "STALE_EXECUTION"
      [] phase = "REST" -> "STALE_REST"
      [] phase = "TRANSITION" -> "STALE_TRANSITION"

\* The record the save effect writes once it renders with the session set
\* and the timer state as constructed
IdleRecord(id) ==
    [sessionId |-> id, state |-> "IDLE", tutStartTime |-> Null,
     restStartTime |-> Null, countdownEndTime |-> Null, lastTutMs |-> 0,
     setRegistered |-> FALSE]

\* The updates of one continuation are rendered together after it returns
UpdatesBatched == TRUE

\* The record read as it would be if the view were rendered, and its effects
\* run, between setSession and restoreTimerState
InitResumeReadAfterRender(rec, id) == IdleRecord(id)

\* The record restoreTimerState reads: init calls setSession and
\* restoreTimerState in one continuation, and the save effect of the render
\* before it returned at the null session
InitResumeRead(rec, id) == IF UpdatesBatched THEN rec ELSE IdleRecord(id)

\* init, existingSession found for this template: resume it
InitResume(t, id) ==
    LET ex == store[id].exercises
        rs == RestoreSessionState(ex, t)
        rt == RestoreTimerState(InitResumeRead(lsRec, id), id, now, rs.lastTutTime)
    IN /\ sessId' = id
       /\ resumedFrom' = IF rt.error THEN "ERROR"
                         ELSE IF ParseThrows(lsRec) THEN "MALFORMED"
                         ELSE IF lsRec.sessionId = id THEN lsRec.state
                         ELSE IF lsRec.sessionId # 0 THEN StaleTag(lsRec.state)
                         ELSE "-"
       /\ sessEx' = ex
       /\ sessionStartTime' = store[id].startTime
       /\ summaryData' = NoSummary
       /\ cei' = rs.cei /\ csi' = rs.csi
       /\ timerState' = rt.timerState
       /\ tutStartTime' = rt.tutStartTime
       /\ restStartTime' = rt.restStartTime
       /\ countdownEndTime' = rt.countdownEndTime
       /\ lastTutTime' = rt.lastTutTime
       /\ setRegistered' = rt.setRegistered
       /\ UNCHANGED <<store, nextId, windowAppends>>

\* init, otherwise: create and save a new session
InitNew(t) ==
    LET ex == [i \in 1..Len(Plan(t)) |-> <<>>]
        new == [templateId |-> t, startTime |-> now, endTime |-> Null,
                exercises |-> ex, completed |-> FALSE]
    IN /\ nextId <= MaxSessions
       /\ store' = SaveSession(store, nextId, new)
       /\ nextId' = nextId + 1
       /\ sessId' = nextId
       /\ resumedFrom' = "-"
       /\ sessEx' = ex
       /\ sessionStartTime' = now
       /\ summaryData' = NoSummary
       /\ cei' = 0 /\ csi' = 0
       /\ timerState' = "IDLE"
       /\ tutStartTime' = Null /\ restStartTime' = Null /\ countdownEndTime' = Null
       /\ lastTutTime' = 0 /\ setRegistered' = FALSE
       /\ windowAppends' = 0

\* startWorkout / resumeSession navigate to /session/t; the view mounts and init runs
Open(t) ==
    /\ view = "home"
    /\ visible
    /\ pending = <<>>
    /\ view' = "session"
    /\ templateId' = t
    /\ LET id == GetActiveSession(store)
       IN IF id # 0 /\ store[id].templateId = t THEN InitResume(t, id) ELSE InitNew(t)
    /\ elapsedTut' = 0 /\ elapsedRest' = 0 /\ countdown' = COUNTDOWN_SECONDS
    /\ lastCountdownSecond' = COUNTDOWN_SECONDS
    /\ VibrateEffect(FALSE)
    /\ wakeLockRef' = "null"
    /\ RequestWakeLock
    /\ SaveTimerState(TRUE)
    /\ UNCHANGED <<now, visible, wakeStale, orphanHeld, wakeSupported, env, pending>>
    /\ tones' = NoTones

\* The page is reloaded or the application closed and opened again: every
\* object of the page is gone, the platform releases its wake locks.  (A
\* reload while a request to the session store is in flight is not modelled.)
Reload ==
    /\ view # "home" \/ wakeStale > 0 \/ orphanHeld
    /\ pending = <<>>
    /\ view' = "home"
    /\ Unmounted
    /\ visible' = TRUE
    /\ wakeReq' = 0 /\ wakeStale' = 0 /\ orphanHeld' = FALSE
    /\ pending' = <<>>
    /\ UNCHANGED <<now, persistVars, wakeSupported, env>>
    /\ resumedFrom' = "-"
    /\ UNCHANGED windowAppends

\* Wall-clock time passes.  (A request to the session store settles within
\* milliseconds: the clock takes no step while one is in flight.)
Advance(d, limit) ==
    /\ now + d <= limit
    /\ pending = <<>>
    /\ now' = now + d
    /\ UNCHANGED <<visible, persistVars, sessVars, cursorVars, timerVars, tickVars,
                   wakeVars, pending, signalVars>>
    /\ resumedFrom' = "-"
    /\ UNCHANGED windowAppends

----------------------------------------------------------------------------
(* The timer *)

\* The countdown tone is due: the remaining whole seconds have changed
\* The countdown tone as it would be without the comparison with the last
\* second announced
CountdownBeepEveryTick(cd, remaining, last) == cd /\ remaining > 0

CountdownBeep(cd, remaining, last) == cd /\ remaining # last /\ remaining > 0

\* playBeep as it would be without its try/catch: a throwing playback
\* leaves the caller at the call
PlayBeepUncaught(throws) == throws

\* playBeep catches what the playback throws and logs it: the caller goes on
PlayBeepAborts(throws) == FALSE

\* The deadline test as it would be if the countdown ended at any tick
CountdownDueAtAnyTick(cd, remaining, phase) == cd /\ phase = "PREPARATION"

\* remaining <= 0 && timerState === 'PREPARATION', under if (countdownEndTime)
CountdownDue(cd, remaining, phase) == cd /\ remaining <= 0 /\ phase = "PREPARATION"

\* The setInterval callback running at time t and the effects of the render
\* it causes
\* The elapsed value as it would be if each tick added the interval's period
ElapsedAccumulated(t, anchor, shown) == shown + TickMs

\* setElapsedTut(now - tutStartTime), setElapsedRest(now - restStartTime)
ElapsedSince(t, anchor, shown) == t - anchor

TickBody(t) ==
    /\ Mounted
    /\ LET cd == Truthy(countdownEndTime)
           remaining == CeilSeconds(countdownEndTime - t)
           beep == CountdownBeep(cd, remaining, lastCountdownSecond)
           due == CountdownDue(cd, remaining, timerState)
           abort == (beep \/ due) /\ PlayBeepAborts(env.toneThrows)
           fire == due /\ ~abort
       IN /\ countdown' = IF cd THEN Max(0, remaining) ELSE countdown
          /\ lastCountdownSecond' = IF fire THEN COUNTDOWN_SECONDS
                                    ELSE IF beep THEN remaining
                                    ELSE lastCountdownSecond
          /\ countdownEndTime' = IF fire THEN Null ELSE countdownEndTime
          /\ tutStartTime' = IF fire THEN t ELSE tutStartTime
          /\ timerState' = IF fire THEN "EXECUTION" ELSE timerState
          /\ tones' = [tones EXCEPT
                         !.beeps = IF beep /\ ~env.toneThrows
                                   THEN Append(@, remaining) ELSE @,
                         !.finals = IF due /\ ~env.toneThrows THEN @ + 1 ELSE @]
          /\ elapsedTut' = IF Truthy(tutStartTime) /\ ~abort
                           THEN ElapsedSince(t, tutStartTime, elapsedTut)
                           ELSE elapsedTut
          /\ elapsedRest' = IF Truthy(restStartTime) /\ ~abort
                            THEN ElapsedSince(t, restStartTime, elapsedRest)
                            ELSE elapsedRest
    /\ UNCHANGED <<restStartTime, lastTutTime, setRegistered>>
    /\ UNCHANGED <<visible, store, nextId, sessVars, cursorVars, wakeVars, pending>>
    /\ VibrateEffect(hasVibrated)
    /\ SaveTimerState(FALSE)
    /\ resumedFrom' = "-"
    /\ UNCHANGED windowAppends

\* A tick at some moment of the current clock value
Tick == TickBody(now) /\ UNCHANGED now

\* The interval's next tick, d after the previous one
IntervalTick(d, limit) ==
    /\ now + d <= limit
    /\ now' = now + d
    /\ TickBody(now + d)

\* startPreparation: the assignments of lines 295-301
StartPreparationBody ==
    /\ countdownEndTime' = now + COUNTDOWN_SECONDS * 1000
    /\ countdown' = COUNTDOWN_SECONDS
    /\ lastCountdownSecond' = COUNTDOWN_SECONDS
    /\ timerState' = "PREPARATION"
    /\ setRegistered' = FALSE
    /\ tones' = [start |-> now, beeps |-> <<>>, finals |-> 0]

\* "Iniciar Serie", shown in IDLE
StartPreparation ==
    /\ view = "session" /\ visible
    /\ timerState = "IDLE"
    /\ StartPreparationBody
    /\ UNCHANGED <<tutStartTime, restStartTime, lastTutTime, elapsedTut, elapsedRest>>
    /\ UNCHANGED <<now, visible, store, nextId, sessVars, cursorVars, wakeVars, pending>>
    /\ VibrateEffect(FALSE)
    /\ SaveTimerState(FALSE)
    /\ resumedFrom' = "-"
    /\ windowAppends' = 0

\* What endExecution records as the duration of the set
MeasuredTut == elapsedTut

\* "Fin de Serie", shown in EXECUTION
EndExecution ==
    /\ view = "session" /\ visible
    /\ timerState = "EXECUTION"
    /\ lastTutTime' = MeasuredTut
    /\ tutStartTime' = Null
    /\ restStartTime' = now
    /\ elapsedRest' = 0
    /\ timerState' = "REST"
    /\ setRegistered' = FALSE
    /\ UNCHANGED <<countdownEndTime, elapsedTut, countdown, lastCountdownSecond>>
    /\ UNCHANGED <<now, visible, store, nextId, sessVars, cursorVars, wakeVars, pending>>
    /\ UNCHANGED tones
    /\ VibrateEffect(FALSE)
    /\ SaveTimerState(FALSE)
    /\ resumedFrom' = "-"
    /\ windowAppends' = 0

----------------------------------------------------------------------------
(* The set registry *)

\* setData of registerSet
SetData ==
    [setNumber |-> csi + 1, tutMs |-> lastTutTime, restMs |-> elapsedRest,
     startTime |-> IF Truthy(tutStartTime) THEN tutStartTime ELSE now,
     endTime |-> now]

\* The session object of the component's state, as db.saveSession clones it
SessionObject(ex) ==
    [templateId |-> templateId, startTime |-> sessionStartTime, endTime |-> Null,
     exercises |-> ex, completed |-> FALSE]

\* The push as it would be if it were an unshift
UnshiftSet(ex, i, d) == [ex EXCEPT ![i + 1] = <<d>> \o @]

\* updatedSession.exercises[currentExerciseIndex].sets.push(setData)
PushSet(ex, i, d) == [ex EXCEPT ![i + 1] = Append(@, d)]

\* "Registrar Serie", shown in REST while not registered: registerSet up to
\* its await.  The push mutates the sets array that the session state shares.
RegisterSet ==
    /\ view = "session" /\ visible
    /\ timerState = "REST" /\ ~setRegistered
    /\ sessId # 0
    /\ Len(pending) < MaxPending
    /\ sessEx' = PushSet(sessEx, cei, SetData)
    /\ store' = SaveSession(store, sessId, SessionObject(sessEx'))
    /\ pending' = Append(pending, [op |-> "register", cei |-> cei, csi |-> csi])
    /\ UNCHANGED <<now, visible, nextId, recVars, view, templateId, sessId,
                   sessionStartTime, summaryData, cursorVars, timerVars, tickVars,
                   wakeVars,
                   signalVars>>
    /\ resumedFrom' = "-"
    /\ windowAppends' = windowAppends + 1

\* registerSet up to its await, requested in a phase other than REST: the
\* guard of the callback tests session, template and setRegistered only
\* (with the cursor beyond the plan the push throws; that request is left out)
RegisterSetRequest ==
    /\ view = "session" /\ visible
    /\ timerState # "REST"
    /\ sessId # 0 /\ ~setRegistered
    /\ cei < Len(Plan(templateId))
    /\ Len(pending) < MaxPending
    /\ sessEx' = PushSet(sessEx, cei, SetData)
    /\ store' = SaveSession(store, sessId, SessionObject(sessEx'))
    /\ pending' = Append(pending, [op |-> "register", cei |-> cei, csi |-> csi])
    /\ UNCHANGED <<now, visible, nextId, recVars, view, templateId, sessId,
                   sessionStartTime, summaryData, cursorVars, timerVars, tickVars,
                   wakeVars,
                   signalVars>>
    /\ resumedFrom' = "-"
    /\ windowAppends' = windowAppends + 1

\* registerSet when db.saveSession rejects: the push has mutated the sets
\* array of the session state, nothing is stored, and the rejection leaves
\* the callback at its await (no try/catch), so no setter runs
RegisterSetSaveFails ==
    /\ view = "session" /\ visible
    /\ timerState = "REST" /\ ~setRegistered
    /\ sessId # 0
    /\ pending = <<>>
    /\ windowAppends < MaxFailedSaves
    /\ sessEx' = PushSet(sessEx, cei, SetData)
    /\ UNCHANGED <<now, visible, persistVars, view, templateId, sessId,
                   sessionStartTime, summaryData, cursorVars, timerVars, tickVars,
                   wakeVars,
                   signalVars, pending>>
    /\ resumedFrom' = "-"
    /\ windowAppends' = windowAppends + 1

\* registerSet after its await: setSession, setSetRegistered and the
\* transition decided from the indices the callback closed over
RegisterSetResume ==
    /\ pending # <<>> /\ Head(pending).op = "register"
    /\ pending' = Tail(pending)
    /\ IF Mounted
       THEN /\ setRegistered' = TRUE
            /\ timerState' =
                 IF /\ IsLastSetOfExercise(templateId, Head(pending).cei, Head(pending).csi)
                    /\ ~IsLastExercise(templateId, Head(pending).cei)
                 THEN "TRANSITION" ELSE timerState
            /\ UNCHANGED <<tutStartTime, restStartTime, countdownEndTime, lastTutTime>>
            /\ UNCHANGED <<elapsedTut, elapsedRest, countdown, lastCountdownSecond>>
            /\ UNCHANGED <<sessVars, cursorVars>>
            /\ VibrateEffect(hasVibrated)
            /\ SaveTimerState(TRUE)
       ELSE UNCHANGED <<recVars, sessVars, cursorVars, timerVars, tickVars, buzzes>>
    /\ UNCHANGED <<now, visible, store, nextId, wakeVars, tones>>
    /\ resumedFrom' = "-"
    /\ UNCHANGED windowAppends

\* The gating of the button as it would be without the test of setRegistered
NextSetOfferedUnregistered(phase, registered) == phase = "REST"

\* timerState === 'REST' && setRegistered, the gating of the advance button
NextSetOffered(phase, registered) == phase = "REST" /\ registered

\* "Iniciar Siguiente Serie", shown in REST once registered unless isVeryLastSet
StartNextSet ==
    /\ view = "session" /\ visible
    /\ NextSetOffered(timerState, setRegistered)
    /\ ~IsVeryLastSet(templateId, cei, csi)
    /\ csi' = IF ~IsLastSetOfExercise(templateId, cei, csi) THEN csi + 1 ELSE csi
    /\ restStartTime' = Null
    /\ elapsedRest' = 0
    /\ elapsedTut' = 0
    /\ lastTutTime' = 0
    /\ StartPreparationBody
    /\ UNCHANGED <<tutStartTime, cei>>
    /\ UNCHANGED <<now, visible, store, nextId, sessVars, wakeVars, pending>>
    /\ VibrateEffect(FALSE)
    /\ SaveTimerState(FALSE)
    /\ resumedFrom' = "-"
    /\ windowAppends' = 0

\* Unmounting the view: the cleanup of the first effect releases the wake
\* lock; requests still unsettled will settle into a ref nobody releases
UnmountWake ==
    /\ wakeReq' = 0
    /\ wakeStale' = wakeStale + wakeReq
    /\ UNCHANGED <<orphanHeld, wakeSupported, env>>

\* "Siguiente Ejercicio", shown in TRANSITION.  The render that follows reads
\* template.exercises[currentExerciseIndex].sets: beyond the plan it throws,
\* and React unmounts the tree.
StartNextExercise ==
    /\ view = "session" /\ visible
    /\ timerState = "TRANSITION"
    /\ IF cei + 1 < Len(Plan(templateId))
       THEN /\ cei' = cei + 1
            /\ csi' = 0
            /\ restStartTime' = Null
            /\ elapsedRest' = 0
            /\ elapsedTut' = 0
            /\ lastTutTime' = 0
            /\ setRegistered' = FALSE
            /\ timerState' = "IDLE"
            /\ UNCHANGED <<tutStartTime, countdownEndTime, countdown, lastCountdownSecond>>
            /\ UNCHANGED <<sessVars, wakeVars, tones>>
            /\ VibrateEffect(FALSE)
            /\ SaveTimerState(FALSE)
       ELSE /\ view' = "crashed"
            /\ Unmounted
            /\ UnmountWake
            /\ UNCHANGED recVars
    /\ UNCHANGED <<now, visible, store, nextId, pending>>
    /\ resumedFrom' = "-"
    /\ windowAppends' = 0

----------------------------------------------------------------------------
(* Finishing and cancelling *)

\* generateSummaryJSON of the session view, over summaryData
GenerateSummary(d) ==
    [workout |-> d.templateId,
     date |-> d.startTime \div 86400000,
     duration_minutes |-> MathRound(d.endTime - d.startTime, 60000),
     exercises |-> [i \in 1..Len(d.exercises) |->
        [name |-> i,
         sets |-> [k \in 1..Len(d.exercises[i]) |->
            [tut_seconds |-> MathRound(d.exercises[i][k].tutMs, 1000),
             rest_seconds |-> MathRound(d.exercises[i][k].restMs, 1000)]]]]]

\* formatSessionForAI of the history view, over a stored session
FormatSessionForAI(d) ==
    [workout |-> d.templateId,
     date |-> d.startTime \div 86400000,
     duration_minutes |-> IF Truthy(d.endTime)
                          THEN MathRound(d.endTime - d.startTime, 60000) ELSE 0,
     exercises |-> [i \in 1..Len(d.exercises) |->
        [name |-> i,
         sets |-> [k \in 1..Len(d.exercises[i]) |->
            [tut_seconds |-> MathRound(d.exercises[i][k].tutMs, 1000),
             rest_seconds |-> MathRound(d.exercises[i][k].restMs, 1000)]]]]]

\* "Finalizar Entrenamiento", shown in REST once registered when isVeryLastSet:
\* finishWorkout up to its await
FinishWorkout ==
    /\ view = "session" /\ visible
    /\ timerState = "REST" /\ setRegistered
    /\ IsVeryLastSet(templateId, cei, csi)
    /\ sessId # 0
    /\ Len(pending) < MaxPending
    /\ LET completed == [SessionObject(sessEx) EXCEPT !.completed = TRUE,
                                                      !.endTime = now]
       IN /\ store' = SaveSession(store, sessId, completed)
          /\ pending' = Append(pending, [op |-> "finish", cei |-> cei, csi |-> csi,
                                         completed |-> completed])
    /\ UNCHANGED <<now, visible, nextId, recVars, sessVars, cursorVars, timerVars,
                   tickVars, wakeVars, signalVars>>
    /\ resumedFrom' = "-"
    /\ UNCHANGED windowAppends

\* finishWorkout after its await
FinishWorkoutResume ==
    /\ pending # <<>> /\ Head(pending).op = "finish"
    /\ pending' = Tail(pending)
    /\ lsRec' = NoRec
    /\ saved' = NoSaved
    /\ IF Mounted
       THEN /\ ReleaseWakeLock
            /\ view' = "summary"
            /\ summaryData' = Head(pending).completed
       ELSE UNCHANGED <<wakeLockRef, view, summaryData>>
    /\ UNCHANGED <<now, visible, store, nextId, templateId, sessId, sessEx,
                   sessionStartTime, cursorVars, timerVars, tickVars,
                   wakeReq, wakeStale, orphanHeld, wakeSupported, env, signalVars>>
    /\ resumedFrom' = "-"
    /\ UNCHANGED windowAppends

\* "Cancelar", shown in the header in every phase: cancelWorkout up to its await
CancelWorkout ==
    /\ view = "session" /\ visible
    /\ Len(pending) < MaxPending
    /\ store' = IF sessId # 0 THEN DeleteSession(store, sessId) ELSE store
    /\ pending' = Append(pending, [op |-> "cancel", cei |-> cei, csi |-> csi])
    /\ UNCHANGED <<now, visible, nextId, recVars, sessVars, cursorVars, timerVars,
                   tickVars, wakeVars, signalVars>>
    /\ resumedFrom' = "-"
    /\ UNCHANGED windowAppends

\* cancelWorkout after its await: releaseWakeLock, removeItem, navigate('/');
\* the session view unmounts
CancelWorkoutResume ==
    /\ pending # <<>> /\ Head(pending).op = "cancel"
    /\ pending' = Tail(pending)
    /\ lsRec' = NoRec
    /\ saved' = NoSaved
    /\ view' = "home"
    /\ Unmounted
    /\ UnmountWake
    /\ UNCHANGED <<now, visible, store, nextId>>
    /\ resumedFrom' = "-"
    /\ windowAppends' = 0

\* "Cerrar" of the summary modal: navigate('/')
CloseSummaryAndGoHome ==
    /\ view = "summary" /\ visible
    /\ view' = "home"
    /\ Unmounted
    /\ UnmountWake
    /\ UNCHANGED <<now, visible, persistVars, pending>>
    /\ resumedFrom' = "-"
    /\ UNCHANGED windowAppends

----------------------------------------------------------------------------
(* The wake lock *)

\* navigator.wakeLock.request settles for the mounted view: granted, the
\* sentinel is stored in the ref, over whatever the ref held
WakeLockSettle(granted) ==
    /\ wakeReq > 0
    /\ granted => visible
    /\ wakeReq' = wakeReq - 1
    /\ wakeLockRef' = IF granted THEN "active" ELSE wakeLockRef
    /\ orphanHeld' = (orphanHeld \/ (granted /\ wakeLockRef = "active"))
    /\ UNCHANGED <<now, visible, persistVars, sessVars, cursorVars, timerVars,
                   tickVars, wakeStale, wakeSupported, env, pending, signalVars>>
    /\ resumedFrom' = "-"
    /\ UNCHANGED windowAppends

\* The same for a request whose view has unmounted meanwhile
WakeLockSettleStale(granted) ==
    /\ wakeStale > 0
    /\ granted => visible
    /\ wakeStale' = wakeStale - 1
    /\ orphanHeld' = (orphanHeld \/ granted)
    /\ UNCHANGED <<now, visible, persistVars, sessVars, cursorVars, timerVars,
                   tickVars, wakeLockRef, wakeReq, wakeSupported, env, pending, signalVars>>
    /\ resumedFrom' = "-"
    /\ UNCHANGED windowAppends

\* The document is hidden: the platform releases every sentinel; the ref
\* keeps pointing to its released sentinel
Hide ==
    /\ visible
    /\ visible' = FALSE
    /\ wakeLockRef' = IF wakeLockRef = "active" THEN "released" ELSE wakeLockRef
    /\ orphanHeld' = FALSE
    /\ UNCHANGED <<now, persistVars, sessVars, cursorVars, timerVars, tickVars,
                   wakeReq, wakeStale, wakeSupported, env, pending, signalVars>>
    /\ resumedFrom' = "-"
    /\ UNCHANGED windowAppends

\* handleVisibilityChange when the document becomes visible again
Show ==
    /\ ~visible
    /\ visible' = TRUE
    /\ IF Mounted /\ wakeLockRef = "null"
       THEN RequestWakeLock
       ELSE UNCHANGED wakeReq
    /\ UNCHANGED <<now, persistVars, sessVars, cursorVars, timerVars, tickVars,
                   wakeLockRef, wakeStale, orphanHeld, wakeSupported, env, pending,
                   signalVars>>
    /\ resumedFrom' = "-"
    /\ UNCHANGED windowAppends

----------------------------------------------------------------------------

\* The stored timer record is damaged while the application is closed:
\* its text is no JSON, or the text "null", or a record that lacks the
\* anchor of its phase
Corrupt(kind) ==
    /\ view = "home"
    /\ lsRec.sessionId > 0
    /\ lsRec' = CASE kind = "invalid" -> InvalidJson
                  [] kind = "null" -> JsonNull
                  [] kind = "anchor" ->
                       [lsRec EXCEPT !.tutStartTime = Null, !.restStartTime = Null,
                                     !.countdownEndTime = Null]
    /\ kind = "anchor" => lsRec.state # "IDLE" /\ lsRec' # lsRec
    /\ UNCHANGED <<now, visible, store, nextId, saved, sessVars, cursorVars,
                   timerVars, tickVars, wakeVars, pending, windowAppends,
                   signalVars>>
    /\ resumedFrom' = "-"

\* The session view of one template on a platform without the Wake Lock API
Next ==
    \/ Open("A")
    \/ Reload
    \/ Advance(StepMs, MaxNow)
    \/ Tick
    \/ StartPreparation
    \/ EndExecution
    \/ RegisterSet
    \/ RegisterSetResume
    \/ StartNextSet
    \/ StartNextExercise
    \/ FinishWorkout
    \/ FinishWorkoutResume
    \/ CancelWorkout
    \/ CancelWorkoutResume
    \/ CloseSummaryAndGoHome

Spec == Init /\ [][Next]_vars

\* One uninterrupted session of the plan with three exercises: every
\* operation is invoked once where its button is shown, nothing is reloaded
\* or cancelled
RegisterSetOnce == pending = <<>> /\ RegisterSet

NextDrive ==
    \/ Open("C")
    \/ Advance(StepMs, DriveMaxNow)
    \/ Tick
    \/ StartPreparation
    \/ EndExecution
    \/ RegisterSetOnce
    \/ RegisterSetResume
    \/ StartNextSet
    \/ StartNextExercise
    \/ FinishWorkout
    \/ FinishWorkoutResume
    \/ CloseSummaryAndGoHome

SpecDrive == Init /\ [][NextDrive]_vars

\* The session view of the one-set template on a platform with the Wake Lock
\* API, the document being hidden and shown
InitWake == InitWith(TRUE)

NextWake ==
    \/ Open("B")
    \/ Reload
    \/ Advance(StepMs, ShortMaxNow)
    \/ Tick
    \/ StartPreparation
    \/ EndExecution
    \/ RegisterSet
    \/ RegisterSetResume
    \/ FinishWorkout
    \/ FinishWorkoutResume
    \/ CancelWorkout
    \/ CancelWorkoutResume
    \/ CloseSummaryAndGoHome
    \/ WakeLockSettle(TRUE)
    \/ WakeLockSettle(FALSE)
    \/ WakeLockSettleStale(TRUE)
    \/ WakeLockSettleStale(FALSE)
    \/ Hide
    \/ Show

SpecWake == InitWake /\ [][NextWake]_vars

\* The same on every platform: the Wake Lock API present or not, vibration
\* supported or not, tone playback throwing or not
EnvSet == [vibrate : BOOLEAN, toneThrows : BOOLEAN]

InitEnv == \E supported \in BOOLEAN : \E e \in EnvSet : InitBase(supported, e)

SpecEnv == InitEnv /\ [][NextWake]_vars

\* The library of two templates: the home view starts either
NextTwo ==
    \/ Open("A")
    \/ Open("B")
    \/ Reload
    \/ Advance(StepMs, ShortMaxNow)
    \/ Tick
    \/ StartPreparation
    \/ EndExecution
    \/ RegisterSet
    \/ RegisterSetResume
    \/ StartNextSet
    \/ StartNextExercise
    \/ FinishWorkout
    \/ FinishWorkoutResume
    \/ CancelWorkout
    \/ CancelWorkoutResume
    \/ CloseSummaryAndGoHome

SpecTwo == Init /\ [][NextTwo]_vars

\* The session view with registerSet requested in every phase
NextRequest ==
    \/ Open("A")
    \/ Advance(StepMs, ShortMaxNow)
    \/ Tick
    \/ StartPreparation
    \/ EndExecution
    \/ RegisterSet
    \/ RegisterSetRequest
    \/ RegisterSetResume
    \/ StartNextSet
    \/ StartNextExercise

SpecRequest == Init /\ [][NextRequest]_vars

\* The clock advances by a fine step while a set or a rest is measured
AdvanceFine(d, limit) ==
    /\ timerState \in {"EXECUTION", "REST"}
    /\ Advance(d, limit)

\* One session of template B up to its summary, the clock advancing also in
\* fine steps, so that durations are no whole seconds
NextSummary ==
    \/ Open("B")
    \/ Advance(StepMs, SummaryMaxNow)
    \/ AdvanceFine(FineMs, SummaryMaxNow)
    \/ AdvanceFine(FineMs - 1, SummaryMaxNow)
    \/ Tick
    \/ StartPreparation
    \/ EndExecution
    \/ RegisterSetOnce
    \/ RegisterSetResume
    \/ FinishWorkout
    \/ FinishWorkoutResume

SpecSummary == Init /\ [][NextSummary]_vars

\* One set and its rest, the clock advancing in steps that are no whole
\* number of seconds, a tick delivered at any of its values or at none
NextElapsed ==
    \/ Open("B")
    \/ Advance(CoarseMs, ElapsedMaxNow)
    \/ Tick
    \/ StartPreparation
    \/ EndExecution
    \/ RegisterSetOnce
    \/ RegisterSetResume

SpecElapsed == Init /\ [][NextElapsed]_vars

\* A session of the one-exercise three-set template, one registerSet at a
\* time, the page reloaded at any point with no request in flight
NextInterrupted ==
    \/ Open("D")
    \/ Reload
    \/ Advance(StepMs, InterruptedMaxNow)
    \/ Tick
    \/ StartPreparation
    \/ EndExecution
    \/ RegisterSetOnce
    \/ RegisterSetResume
    \/ StartNextSet
    \/ FinishWorkout
    \/ FinishWorkoutResume

SpecInterrupted == Init /\ [][NextInterrupted]_vars

\* Two templates, one registerSet at a time, the page reloaded at any point
\* with no request in flight: the session of one template is resumed after
\* the other template was opened
NextParked ==
    \/ Open("A")
    \/ Open("B")
    \/ Reload
    \/ Advance(StepMs, ShortMaxNow)
    \/ Tick
    \/ StartPreparation
    \/ EndExecution
    \/ RegisterSetOnce
    \/ RegisterSetResume
    \/ StartNextSet

SpecParked == Init /\ [][NextParked]_vars

\* The session view, one registerSet at a time, its save failing or not
NextSaveFails ==
    \/ Open("A")
    \/ Advance(StepMs, ShortMaxNow)
    \/ Tick
    \/ StartPreparation
    \/ EndExecution
    \/ RegisterSetOnce
    \/ RegisterSetSaveFails
    \/ RegisterSetResume
    \/ StartNextSet
    \/ StartNextExercise

SpecSaveFails == Init /\ [][NextSaveFails]_vars

\* The session view of one template with a timer record that can be damaged
NextCorrupt ==
    \/ Open("A")
    \/ Reload
    \/ Corrupt("invalid")
    \/ Corrupt("null")
    \/ Corrupt("anchor")
    \/ Advance(StepMs, ShortMaxNow)
    \/ Tick
    \/ StartPreparation
    \/ EndExecution
    \/ RegisterSet
    \/ RegisterSetResume
    \/ StartNextSet
    \/ StartNextExercise
    \/ FinishWorkout
    \/ FinishWorkoutResume
    \/ CancelWorkout
    \/ CancelWorkoutResume
    \/ CloseSummaryAndGoHome

SpecCorrupt == Init /\ [][NextCorrupt]_vars

\* One set under regular ticks: the interval fires every TickMs, up to
\* TickJitter late, and the buttons are pressed between ticks
NextCountdown ==
    \/ Open("B")
    \/ StartPreparation
    \/ IntervalTick(TickMs, CountdownMaxNow)
    \/ IntervalTick(TickMs + TickJitter, CountdownMaxNow)
    \/ EndExecution

SpecCountdown == Init /\ [][NextCountdown]_vars

----------------------------------------------------------------------------
(* Properties *)

\* The step that mounts the view and resumes the session of the stored record
ResumeStep ==
    /\ view = "home" /\ view' = "session"
    /\ saved.sessionId # 0 /\ sessId' = saved.sessionId

\* C1: whenever endExecution runs in EXECUTION at time t, the recorded
\* lastTutTime is t minus the anchor tutStartTime, wherever the preceding tick
\* fell.
C1_EndSetMeasuresFromAnchor ==
    [][(timerState = "EXECUTION" /\ timerState' = "REST")
         => lastTutTime' = now - tutStartTime]_vars

\* C2: resuming from a stored PREPARATION record whose deadline is at or
\* before now enters EXECUTION with tutStartTime equal to the stored deadline,
\* and the elapsed tension time the resumed view computes next is now minus
\* that anchor.
C2_ResumeExpiredPreparation ==
    [][/\ (ResumeStep /\ lsRec.state = "PREPARATION" /\ lsRec.countdownEndTime <= now)
          => /\ timerState' = "EXECUTION"
             /\ tutStartTime' = lsRec.countdownEndTime
             /\ countdownEndTime' = Null
       /\ (resumedFrom = "PREPARATION" /\ timerState = "EXECUTION"
             /\ elapsedTut' # elapsedTut)
          => elapsedTut' = now - tutStartTime
      ]_vars

C2_Witness ==
    /\ resumedFrom = "PREPARATION"
    /\ timerState = "EXECUTION"
    /\ tutStartTime < now

C4_ResumeKeepsCursor ==
    [][ResumeStep => (cei' = saved.cei /\ csi' = saved.csi)]_vars

\* C5: between one endExecution and the next advance exactly one measurement
\* is appended, however often registerSet is invoked.
C5_RegisterOncePerWindow == windowAppends <= 1

AllowedPhaseChanges ==
    {<<"IDLE", "PREPARATION">>, <<"PREPARATION", "EXECUTION">>,
     <<"EXECUTION", "REST">>, <<"REST", "TRANSITION">>,
     <<"REST", "PREPARATION">>, <<"TRANSITION", "IDLE">>}

\* C6: the only phase changes of a running session are IDLE->PREPARATION,
\* PREPARATION->EXECUTION, EXECUTION->REST, REST->TRANSITION,
\* REST->PREPARATION and TRANSITION->IDLE, in the mounted view and from the
\* stored phase to the resumed one.
C6_OnlyAllowedPhaseChanges ==
    [][/\ (Mounted /\ Mounted' /\ timerState' # timerState)
          => <<timerState, timerState'>> \in AllowedPhaseChanges
       /\ (ResumeStep /\ timerState' # saved.phase)
          => <<saved.phase, timerState'>> \in AllowedPhaseChanges
      ]_vars

\* C8: once cancelWorkout has completed, the session is no longer in the
\* store, no timer record is stored and getActiveSession finds nothing.
C8_CancelDiscardsSession ==
    [][(Mounted /\ pending # <<>> /\ Head(pending).op = "cancel"
          /\ pending' = Tail(pending))
         => /\ sessId \notin DOMAIN store'
            /\ lsRec' = NoRec
            /\ GetActiveSession(store') = 0
      ]_vars

\* The number of measurements of a session and of sets of a plan
TotalSets(ex) ==
    LET S[i \in 0..Len(ex)] == IF i = 0 THEN 0 ELSE S[i - 1] + Len(ex[i])
    IN S[Len(ex)]

PlannedSets(t) ==
    LET S[i \in 0..Len(Plan(t))] == IF i = 0 THEN 0 ELSE S[i - 1] + Plan(t)[i].sets
    IN S[Len(Plan(t))]

\* The cursor position that follows (i, s) in plan order
NextCursor(t, i, s) ==
    IF s + 1 < Plan(t)[i + 1].sets THEN <<i, s + 1>> ELSE <<i + 1, 0>>

\* "Finalizar Entrenamiento" is shown
FinishAvailable ==
    /\ view = "session"
    /\ timerState = "REST" /\ setRegistered
    /\ IsVeryLastSet(templateId, cei, csi)

\* Every slot before the cursor holds its planned number of measurements, the
\* cursor's slot one per set done, the slots after it none
SlotsFollowCursor ==
    \A i \in 1..Len(Plan(templateId)) :
        Len(sessEx[i]) = IF i - 1 < cei THEN Plan(templateId)[i].sets
                         ELSE IF i - 1 = cei THEN csi + windowAppends
                         ELSE 0

\* C7: an uninterrupted session of the plan 3/2/1 registers exactly one
\* measurement per planned set (6 in all), its cursor starts at (0, 0) and
\* moves only to the next position of the plan, only after the registration
\* at the position it leaves, and finishWorkout is available, and the session
\* stored as completed, only with all 6 measurements registered.
C7_PlanDrivenInOrder ==
    [][/\ (view = "home" /\ view' = "session") => (cei' = 0 /\ csi' = 0)
       /\ (Mounted /\ Mounted' /\ <<cei', csi'>> # <<cei, csi>>)
          => /\ <<cei', csi'>> = NextCursor(templateId, cei, csi)
             /\ windowAppends = 1
       /\ Mounted'
          => /\ cei' < Len(Plan(templateId'))
             /\ csi' < Plan(templateId')[cei' + 1].sets
             /\ windowAppends' <= 1
             /\ SlotsFollowCursor'
             /\ FinishAvailable' => TotalSets(sessEx') = PlannedSets(templateId')
             /\ store'[sessId'].completed
                => TotalSets(store'[sessId'].exercises) = PlannedSets(templateId')
      ]_vars

C7_Witness ==
    /\ view = "summary"
    /\ templateId = "C"
    /\ store[sessId].completed
    /\ TotalSets(store[sessId].exercises) = 6

\* C9: once a session has been cancelled or completed no wake lock is held,
\* whenever the request issued at mount settles.
C9_NoWakeLockAfterEnd ==
    view \in {"home", "summary"} => (wakeLockRef # "active" /\ ~orphanHeld)

\* C10: the store holds at most one session that is not completed.
C10_AtMostOneActiveSession == Cardinality(ActiveIds(store)) <= 1

\* C11: a stored timer record whose sessionId differs from the session being
\* resumed is never used: the view starts in IDLE with no anchor set and
\* setRegistered false, whatever phase the record holds.
C11_StaleRecordIgnored ==
    [][(/\ view = "home" /\ view' = "session"
        /\ sessId' \in DOMAIN store
        /\ lsRec.sessionId # 0 /\ lsRec.sessionId # sessId')
         => /\ timerState' = "IDLE"
            /\ tutStartTime' = Null /\ restStartTime' = Null
            /\ countdownEndTime' = Null
            /\ setRegistered' = FALSE
      ]_vars

C11_Witness ==
    /\ resumedFrom = "STALE_EXECUTION"
    /\ timerState = "IDLE"
    /\ tutStartTime = Null

\* The stored timer record is damaged: unparsable, or without the anchor of
\* its phase
Damaged(rec) ==
    \/ ParseThrows(rec)
    \/ /\ rec.sessionId > 0
       /\ \/ rec.state = "PREPARATION" /\ rec.countdownEndTime = Null
          \/ rec.state = "EXECUTION" /\ rec.tutStartTime = Null
          \/ rec.state \in {"REST", "TRANSITION"} /\ rec.restStartTime = Null

\* C12: resuming a session over a damaged timer record (invalid JSON, the
\* text "null", a phase without its anchor) treats the record as absent: the
\* view starts in IDLE without anchors, no error escapes restoreTimerState,
\* and the session is loaded as stored.
C12_DamagedRecordIsAbsent ==
    [][(/\ view = "home" /\ view' = "session"
        /\ sessId' \in DOMAIN store
        /\ Damaged(lsRec))
         => /\ timerState' = "IDLE"
            /\ tutStartTime' = Null /\ restStartTime' = Null
            /\ countdownEndTime' = Null
            /\ setRegistered' = FALSE
            /\ resumedFrom' # "ERROR"
            /\ sessEx' = store[sessId'].exercises
            /\ sessionStartTime' = store[sessId'].startTime
            /\ store' = store
      ]_vars

C12_Witness ==
    /\ resumedFrom = "MALFORMED"
    /\ timerState = "IDLE"
    /\ view = "session"
    /\ TotalSets(sessEx) > 0

\* C13: in every state countdownEndTime is set exactly in PREPARATION,
\* tutStartTime exactly in EXECUTION, restStartTime exactly in REST and
\* TRANSITION, and none of them in IDLE.
C13_AnchorMatchesPhase ==
    /\ (countdownEndTime # Null) <=> (timerState = "PREPARATION")
    /\ (tutStartTime # Null) <=> (timerState = "EXECUTION")
    /\ (restStartTime # Null) <=> (timerState \in {"REST", "TRANSITION"})

\* Lexicographic order of cursor positions
LexLeq(a, b) == a[1] < b[1] \/ (a[1] = b[1] /\ a[2] <= b[2])

\* C14: the cursor never decreases over the life of a session, in the mounted
\* view and from the last save to the resume, and stays within the plan:
\* currentExerciseIndex below the number of exercises (also the index that
\* startNextExercise sets) and currentSetIndex at most the target set count.
C14_CursorWithinPlan ==
    [][/\ (Mounted' /\ sessId' # 0)
          => /\ cei' < Len(Plan(templateId'))
             /\ csi' <= Plan(templateId')[cei' + 1].sets
       /\ (view = "session" /\ timerState = "TRANSITION" /\ view' = "crashed")
          => cei + 1 < Len(Plan(templateId))
       /\ (Mounted /\ Mounted' /\ sessId' = sessId)
          => LexLeq(<<cei, csi>>, <<cei', csi'>>)
       /\ ResumeStep => LexLeq(<<saved.cei, saved.csi>>, <<cei', csi'>>)
      ]_vars

\* C15: under ticks every TickMs the countdown tone plays once for each of
\* the remaining seconds 4, 3, 2, 1, in this order, in the first tick at or
\* after 1000, 2000, 3000, 4000 ms from startPreparation, and the final tone
\* plays once, in the tick that moves PREPARATION to EXECUTION, the first at
\* or after 5000 ms, the four countdown tones having played.
C15_CountdownTones ==
    [][/\ (tones'.start = tones.start /\ tones'.beeps # tones.beeps)
          => LET k == Len(tones'.beeps)
                 v == tones'.beeps[k]
                 due == tones.start + (COUNTDOWN_SECONDS - v) * 1000
             IN /\ tones'.beeps = Append(tones.beeps, v)
                /\ v = COUNTDOWN_SECONDS - k
                /\ v >= 1
                /\ now' >= due /\ now' < due + TickMs + TickJitter
       /\ (tones'.start = tones.start /\ tones'.finals # tones.finals)
          => /\ tones.finals = 0 /\ tones'.finals = 1
             /\ timerState = "PREPARATION" /\ timerState' = "EXECUTION"
             /\ tones.beeps = <<4, 3, 2, 1>>
             /\ now' >= tones.start + COUNTDOWN_SECONDS * 1000
             /\ now' < tones.start + COUNTDOWN_SECONDS * 1000 + TickMs + TickJitter
       /\ (timerState = "PREPARATION" /\ timerState' = "EXECUTION")
          => tones'.finals = 1
      ]_vars

C15_Witness ==
    /\ timerState = "EXECUTION"
    /\ tones.beeps = <<4, 3, 2, 1>>
    /\ tones.finals = 1
    /\ elapsedTut > 0


\* C16: the rest-complete vibration fires exactly once per phase instance: in
\* a Rest or a Transition instance it has fired at most once, and it has
\* fired once as soon as the displayed elapsed rest has reached the target
\* rest duration of the current exercise.
C16_BuzzOncePerPhaseInstance ==
    (view = "session" /\ sessId # 0 /\ timerState \in {"REST", "TRANSITION"})
        => /\ buzzes <= 1
           /\ elapsedRest >= TargetRestMs(templateId, cei) => buzzes = 1


\* C17: when the platform has released the wake lock of the session view
\* and the document of that view becomes visible again during an active
\* session, a new wake-lock request is issued.
C17_ReacquireOnVisible ==
    [][(/\ ~visible /\ visible'
        /\ view = "session" /\ sessId # 0 /\ wakeSupported
        /\ view' = "session" /\ sessId' = sessId
        /\ wakeLockRef = "released")
       => wakeReq' = wakeReq + 1]_vars


\* C18: while the summary of a finished workout is shown (no cancellation
\* having been requested meanwhile), the stored session is completed with its
\* endTime set and holds every registered measurement, and no timer record
\* is stored.
C18_FinishedSessionStored ==
    (view = "summary" /\ \A k \in 1..Len(pending) : pending[k].op # "cancel")
        => /\ sessId \in DOMAIN store
           /\ store[sessId].completed
           /\ store[sessId].endTime # Null
           /\ store[sessId].exercises = sessEx
           /\ lsRec = NoRec


C18_Witness ==
    /\ view = "summary" /\ pending = <<>>
    /\ sessId \in DOMAIN store /\ store[sessId].completed
    /\ TotalSets(store[sessId].exercises) > 0
    /\ now > store[sessId].endTime
    /\ elapsedRest = now - restStartTime
    /\ lsRec = NoRec


\* One slot list is the other or the other with one measurement appended
SlotAppendOnly(old, new) ==
    \/ new = old
    \/ /\ Len(new) = Len(old) + 1
       /\ SubSeq(new, 1, Len(old)) = old

AppendOnly(old, new) ==
    /\ Len(new) = Len(old)
    /\ \A i \in 1..Len(old) : SlotAppendOnly(old[i], new[i])

\* C19: at every step, every slot list of a session that stays stored, and
\* of the session object of a view that stays mounted, is its previous list
\* or its previous list with one measurement appended at the end.
C19_MeasurementsAppendOnly ==
    [][/\ \A id \in DOMAIN store \cap DOMAIN store' :
             AppendOnly(store[id].exercises, store'[id].exercises)
       /\ (Mounted /\ Mounted' /\ sessId # 0 /\ sessId' = sessId)
             => AppendOnly(sessEx, sessEx')
      ]_vars

C19_Witness ==
    /\ Mounted /\ sessId \in DOMAIN store
    /\ Len(sessEx[1]) >= 2
    /\ store[sessId].exercises = sessEx
    /\ sessEx[1][1].setNumber = 1 /\ sessEx[1][2].setNumber = 2


NoDuplicateSets(ex) ==
    \A i \in 1..Len(ex) : \A a, b \in 1..Len(ex[i]) :
        a # b => ex[i][a].setNumber # ex[i][b].setNumber

\* C21: a failing session save does not corrupt the registry: with the
\* registration retried after a failed save, neither the session object of
\* the view nor the stored session holds two measurements of the same set.
C21_FailedSaveKeepsRegistry ==
    /\ \A id \in DOMAIN store : NoDuplicateSets(store[id].exercises)
    /\ (Mounted /\ sessId # 0) => NoDuplicateSets(sessEx)


\* The phase, the anchors, the cursor and the measurements
TimerProjection ==
    <<timerState, tutStartTime, restStartTime, countdownEndTime, setRegistered,
      cei, csi, sessEx, store>>

\* C22: failures of the environment do not change the timer: a step of the
\* wake lock alone (a request settling, granted or rejected) leaves the
\* phase, the anchors, the cursor and the measurements unchanged; a tick at
\* or after the deadline of Preparation enters Execution anchored at the
\* time of the tick and a tick updates the elapsed rest, whether or not the
\* tones play; and the already-vibrated flag is set when the rest target is
\* reached, whether or not the platform vibrates.
C22_EnvironmentDoesNotChangeTimer ==
    [][/\ (/\ <<wakeLockRef, wakeReq, wakeStale, orphanHeld>>'
               # <<wakeLockRef, wakeReq, wakeStale, orphanHeld>>
           /\ view' = view /\ sessId' = sessId /\ visible' = visible
           /\ pending' = pending)
          => TimerProjection' = TimerProjection
       /\ (/\ view = "session" /\ view' = "session" /\ sessId' = sessId
           /\ timerState = "PREPARATION" /\ countdown' = 0)
          => /\ timerState' = "EXECUTION"
             /\ tutStartTime' = now' /\ countdownEndTime' = Null
       /\ (/\ view = "session" /\ view' = "session" /\ sessId' = sessId
           /\ timerState' \in {"REST", "TRANSITION"}
           /\ elapsedRest' >= TargetRestMs(templateId', cei'))
          => hasVibrated'
      ]_vars

C22_Witness ==
    /\ wakeSupported /\ wakeLockRef = "null" /\ wakeReq = 0
    /\ env.toneThrows /\ ~env.vibrate
    /\ view = "session" /\ timerState = "REST"
    /\ tones.start # Null /\ tones.finals = 0
    /\ elapsedRest >= TargetRestMs(templateId, cei)
    /\ hasVibrated /\ buzzes = 0


\* C23: a tick in Idle, Execution, Rest or Transition, and a tick in
\* Preparation before the deadline, leaves the phase, the anchors,
\* setRegistered, the cursor and the measurements unchanged.
C23_OnlyPreparationEndsByTime ==
    [][(/\ TickBody(now')
        /\ ~(timerState = "PREPARATION" /\ Truthy(countdownEndTime)
                /\ now' >= countdownEndTime))
       => UNCHANGED <<timerState, tutStartTime, restStartTime, countdownEndTime,
                      setRegistered, cei, csi, sessEx, store>>]_vars

C23_Witness ==
    /\ view = "session" /\ timerState = "REST" /\ ~setRegistered
    /\ elapsedRest >= 2 * TargetRestMs(templateId, cei)
    /\ elapsedRest = now - restStartTime


\* C24: in the summary of a finished session every tut_seconds and
\* rest_seconds is the stored duration rounded to the nearest second,
\* (ms + 500) div 1000, and the summary of the session view equals the one
\* the history view builds from the stored session.
C24_SummaryRoundsAndAgrees ==
    (view = "summary" /\ sessId \in DOMAIN store)
        => LET sv == GenerateSummary(summaryData)
               hv == FormatSessionForAI(store[sessId])
               ex == store[sessId].exercises
           IN /\ sv = hv
              /\ \A i \in 1..Len(ex) : \A k \in 1..Len(ex[i]) :
                    /\ sv.exercises[i].sets[k].tut_seconds
                         = (ex[i][k].tutMs + 500) \div 1000
                    /\ hv.exercises[i].sets[k].rest_seconds
                         = (ex[i][k].restMs + 500) \div 1000

C24_Witness ==
    /\ view = "summary" /\ sessId \in DOMAIN store
    /\ store[sessId].exercises[1] # <<>>
    /\ store[sessId].exercises[1][1].tutMs = 500
    /\ store[sessId].exercises[1][1].restMs % 1000 = 499
    /\ GenerateSummary(summaryData).exercises[1].sets[1].tut_seconds = 1


\* The continuation of registerSet runs in the mounted view
RegisterCompletes ==
    /\ Mounted /\ pending # <<>> /\ Head(pending).op = "register"
    /\ pending' = Tail(pending)

\* C25: when registerSet completes, the phase is Transition if the
\* registered set was the last planned set of the current exercise and a
\* further exercise remains, and Rest otherwise; setRegistered is true and
\* the rest anchor is unchanged.
C25_RegisterMovesToTransition ==
    [][RegisterCompletes
       => /\ timerState' = IF /\ csi + 1 >= Plan(templateId)[cei + 1].sets
                              /\ cei + 1 < Len(Plan(templateId))
                           THEN "TRANSITION" ELSE "REST"
          /\ setRegistered'
          /\ restStartTime' = restStartTime /\ Truthy(restStartTime)
      ]_vars


C27_NextExerciseFromTransition ==
    [][(/\ view = "session" /\ timerState = "TRANSITION"
        /\ view' # "home" /\ timerState' # "TRANSITION")
       => /\ view' = "session" /\ timerState' = "IDLE"
          /\ cei' = cei + 1 /\ cei' < Len(Plan(templateId))
          /\ csi' = 0
          /\ restStartTime' = Null /\ ~setRegistered'
          /\ tones' = tones
      ]_vars


\* C28: the tick of the mounted view that takes Preparation to Execution,
\* however late after the deadline it comes, anchors Execution at the
\* deadline of the countdown.
C28_LateTickBackdatesAnchor ==
    [][(/\ view = "session" /\ view' = "session" /\ sessId' = sessId
        /\ timerState = "PREPARATION" /\ timerState' = "EXECUTION")
       => tutStartTime' = countdownEndTime]_vars


\* The session view mounts over a stored active session whose timer record
\* is absent or holds the phase IDLE
ResumeFromIdle ==
    /\ view = "home" /\ view' = "session"
    /\ sessId' \in DOMAIN store
    /\ lsRec = NoRec \/ (lsRec.sessionId = sessId' /\ lsRec.state = "IDLE")

\* C29: a resume from a stored Idle phase or without a record is Idle with
\* the cursor on the first slot that holds fewer measurements than planned,
\* the set index being the number of its measurements; with every slot full
\* the cursor is parked on the final slot.
C29_ResumeCursorFromCounts ==
    [][ResumeFromIdle
       => LET ex == store[sessId'].exercises
              plan == Plan(templateId')
              full(i) == Len(ex[i]) >= plan[i].sets
          IN /\ timerState' = "IDLE"
             /\ cei' + 1 \in 1..Len(plan)
             /\ \A j \in 1..cei' : full(j)
             /\ csi' = Len(ex[cei' + 1]) \/ (full(cei' + 1) /\ csi' = plan[cei' + 1].sets)
             /\ full(cei' + 1) => cei' + 1 = Len(plan)
      ]_vars

C29_Witness ==
    /\ view = "session" /\ resumedFrom = "IDLE" /\ timerState = "IDLE"
    /\ cei = 1 /\ csi = 0
    /\ Len(sessEx[1]) = 2 /\ sessEx[2] = <<>>


\* The timer record that mirrors the state of the view
MemoryRecord ==
    [sessionId |-> sessId, state |-> timerState,
     tutStartTime |-> tutStartTime, restStartTime |-> restStartTime,
     countdownEndTime |-> countdownEndTime, lastTutMs |-> lastTutTime,
     setRegistered |-> setRegistered]

\* C30: after every step that changes the phase of the session view (its
\* save effect included) the one stored timer record carries the id of the
\* session and the phase, anchors, lastTutTime and setRegistered of the view.
C30_TransitionIsPersisted ==
    [][(view' = "session" /\ sessId' # 0 /\ timerState' # timerState)
       => lsRec' = MemoryRecord']_vars

C30_Witness ==
    /\ view = "session" /\ timerState = "TRANSITION"
    /\ lsRec = MemoryRecord /\ lsRec.state = "TRANSITION"
    /\ Truthy(lsRec.restStartTime) /\ lsRec.setRegistered


\* C31: in the session view setRegistered is false throughout Preparation
\* and Execution and true throughout Transition.
C31_RegisteredMatchesPhase ==
    (view = "session" /\ sessId # 0)
        => /\ timerState \in {"PREPARATION", "EXECUTION"} => ~setRegistered
           /\ timerState = "TRANSITION" => setRegistered


\* C32: after every tick at time now the displayed elapsed execution time
\* is now minus the execution anchor, the displayed elapsed rest is now
\* minus the rest anchor, and the displayed countdown is the least whole
\* number of seconds, not below zero, that covers deadline minus now,
\* whatever ticks came before.
C32_ElapsedDerived ==
    [][TickBody(now')
       => /\ Truthy(tutStartTime') => elapsedTut' = now' - tutStartTime'
          /\ Truthy(restStartTime') => elapsedRest' = now' - restStartTime'
          /\ Truthy(countdownEndTime)
                => LET r == countdownEndTime - now'
                   IN /\ countdown' >= 0
                      /\ countdown' * 1000 >= r
                      /\ countdown' = 0 \/ (countdown' - 1) * 1000 < r]_vars

C32_Witness ==
    /\ view = "session" /\ timerState = "REST"
    /\ elapsedRest = now - restStartTime
    /\ elapsedRest > CoarseMs
    /\ lastTutTime > 0 /\ lastTutTime % 1000 # 0


EverySlotComplete(t, ex) ==
    \A i \in 1..Len(Plan(t)) : Len(ex[i]) = Plan(t)[i].sets

\* C34: with reloads and resumes at arbitrary points, "Finalizar
\* Entrenamiento" is offered only when every exercise slot holds exactly its
\* planned number of measurements.
C34_FinishOnlyWhenComplete ==
    FinishAvailable => EverySlotComplete(templateId, sessEx)


\* C35: in every reachable state each exercise slot, of the session object
\* of the view and of the stored session, holds at most the plan's target
\* number of measurements for that exercise.
C35_SlotWithinTarget ==
    /\ (Mounted /\ sessId # 0)
          => \A i \in 1..Len(sessEx) :
                Len(sessEx[i]) <= Plan(templateId)[i].sets
    /\ \A id \in DOMAIN store :
          \A i \in 1..Len(store[id].exercises) :
             Len(store[id].exercises[i]) <= Plan(store[id].templateId)[i].sets


\* The k-th measurement of every slot has setNumber k
ConsecutiveSetNumbers(ex) ==
    \A i \in 1..Len(ex) : \A k \in 1..Len(ex[i]) : ex[i][k].setNumber = k

\* C36: in every reachable state the k-th measurement of each exercise slot
\* has setNumber k, in the session object of the view and in the stored
\* session.
C36_SetNumbersConsecutive ==
    /\ (Mounted /\ sessId # 0) => ConsecutiveSetNumbers(sessEx)
    /\ \A id \in DOMAIN store : ConsecutiveSetNumbers(store[id].exercises)


\* Every measurement spans at least its execution duration
SpansExecution(ex) ==
    \A i \in 1..Len(ex) : \A k \in 1..Len(ex[i]) :
        /\ ex[i][k].endTime >= ex[i][k].startTime
        /\ ex[i][k].endTime - ex[i][k].startTime >= ex[i][k].tutMs

\* C37: every appended measurement has a startTime no later than its endTime,
\* and endTime - startTime is at least its execution duration tutMs, as it is
\* when startTime is the time its Execution phase began.
C37_MeasurementSpansExecution ==
    /\ (Mounted /\ sessId # 0) => SpansExecution(sessEx)
    /\ \A id \in DOMAIN store : SpansExecution(store[id].exercises)


\* C38: when cancelWorkout and a registerSet invoked while the deletion was
\* pending have both completed, the store holds no record of the cancelled
\* session: no incomplete session is left, whichever continuation is last.
C38_RegisterDuringCancelKeepsDeleted ==
    [][(/\ pending # <<>> /\ pending' = <<>> /\ view' = "home"
        /\ \/ Head(pending).op = "cancel" /\ view = "session"
           \/ Head(pending).op = "register" /\ view = "home")
       => ActiveIds(store') = {}]_vars

====
